---- MODULE Spec2Model ----
(***************************************************************************)
(* db-bench: workload configuration, key/value generation, the workload    *)
(* run loop, engine statistics, write amplification and the comparative    *)
(* report, modelled from src/src/{workload,main,engine,benchmark,analyzer, *)
(* metrics}.rs.                                                            *)
(*                                                                         *)
(* u32/u64 values do not fit TLC's integers, so every machine integer is a *)
(* little-endian sequence of 15-bit limbs ("Big") and the machine width is *)
(* applied explicitly (Wrap).  Strings are sequences of one-character      *)
(* strings.                                                                *)
(***************************************************************************)
EXTENDS Integers, Sequences, FiniteSets, TLC

VARIABLES build, gen, cli, wl, eng, rep, mc, bench

vars == <<build, gen, cli, wl, eng, rep, mc, bench>>

(***************************************************************************)
(* Limb arithmetic on naturals below 2^120.                                *)
(***************************************************************************)
LimbBase == 2^15

Zero == <<0, 0, 0, 0, 0, 0, 0, 0>>

NLimbs == Len(Zero)

\* n in 0 .. 2^31-1 as a Big
FromInt(n) ==
    <<n % LimbBase, (n \div LimbBase) % LimbBase, n \div (LimbBase * LimbBase),
      0, 0, 0, 0, 0>>

RECURSIVE AddFrom(_, _, _, _)
AddFrom(x, y, i, c) ==
    IF i > NLimbs THEN <<>>
    ELSE LET s == x[i] + y[i] + c
         IN  <<s % LimbBase>> \o AddFrom(x, y, i + 1, s \div LimbBase)

BAdd(x, y) == AddFrom(x, y, 1, 0)

RECURSIVE SubFrom(_, _, _, _)
SubFrom(x, y, i, b) ==
    IF i > NLimbs THEN <<>>
    ELSE LET s == x[i] - y[i] - b
         IN  IF s < 0 THEN <<s + LimbBase>> \o SubFrom(x, y, i + 1, 1)
                      ELSE <<s>> \o SubFrom(x, y, i + 1, 0)

\* x - y for x >= y
BSub(x, y) == SubFrom(x, y, 1, 0)

RECURSIVE MulFrom(_, _, _, _)
MulFrom(x, m, i, c) ==
    IF i > NLimbs THEN <<>>
    ELSE LET s == x[i] * m + c
         IN  <<s % LimbBase>> \o MulFrom(x, m, i + 1, s \div LimbBase)

\* x * m for 0 <= m < 2^16
BMulSmall(x, m) == MulFrom(x, m, 1, 0)

RECURSIVE CmpFrom(_, _, _)
CmpFrom(x, y, i) ==
    IF i = 0 THEN 0
    ELSE IF x[i] < y[i] THEN -1
    ELSE IF x[i] > y[i] THEN 1
    ELSE CmpFrom(x, y, i - 1)

BCmp(x, y) == CmpFrom(x, y, NLimbs)

BLt(x, y) == BCmp(x, y) < 0

BLe(x, y) == BCmp(x, y) <= 0

\* quotient and remainder of x by d, 0 < d < 2^16; result <<q, r>>, r an integer
RECURSIVE DivFrom(_, _, _, _)
DivFrom(x, d, i, r) ==
    IF i = 0 THEN <<<<>>, r>>
    ELSE LET cur  == r * LimbBase + x[i]
             rest == DivFrom(x, d, i - 1, cur % d)
         IN  <<Append(rest[1], cur \div d), rest[2]>>

BDivSmall(x, d) == DivFrom(x, d, NLimbs, 0)[1]

BModSmall(x, d) == DivFrom(x, d, NLimbs, 0)[2]

\* 2^k as a Big, k < 120
Pow2(k) == [i \in 1..NLimbs |-> IF i = (k \div 15) + 1 THEN 2^(k % 15) ELSE 0]

\* x mod 2^w: what a w-bit unsigned register keeps of x
Wrap(x, w) ==
    [i \in 1..NLimbs |->
        IF i <= w \div 15 THEN x[i]
        ELSE IF i = (w \div 15) + 1 THEN x[i] % (2^(w % 15))
        ELSE 0]

Fits(x, w) == BLt(x, Pow2(w))

\* bit k (0-based) of x
Bit(x, k) == (x[(k \div 15) + 1] \div (2^(k % 15))) % 2

\* one step of binary long division of n by d at bit k;
\* st is <<quotient so far, remainder so far>>
DivStep(n, d, k, st) ==
    LET r2 == BAdd(BAdd(st[2], st[2]), FromInt(Bit(n, k)))
        q2 == BAdd(st[1], st[1])
    IN  IF BLe(d, r2) THEN <<BAdd(q2, FromInt(1)), BSub(r2, d)>>
                      ELSE <<q2, r2>>

\* the steps for bits k down to the lowest bit of k's limb
RECURSIVE DivBits(_, _, _, _)
DivBits(n, d, k, st) ==
    LET st2 == DivStep(n, d, k, st)
    IN  IF Len(st2[1]) = NLimbs /\ Len(st2[2]) = NLimbs /\ k % 15 # 0
        THEN DivBits(n, d, k - 1, st2)
        ELSE st2

\* the steps for limbs i down to 1
RECURSIVE DivLimbs(_, _, _, _)
DivLimbs(n, d, i, st) ==
    LET st2 == DivBits(n, d, 15 * i - 1, st)
    IN  IF Len(st2[1]) = NLimbs /\ Len(st2[2]) = NLimbs /\ i > 1
        THEN DivLimbs(n, d, i - 1, st2)
        ELSE st2

\* <<n \div d, n % d>> for d # 0
BDivMod(n, d) == DivLimbs(n, d, NLimbs, <<Zero, Zero>>)

BDiv(n, d) == BDivMod(n, d)[1]

(***************************************************************************)
(* Characters and decimal text.                                            *)
(***************************************************************************)
DigitChars == <<"0", "1", "2", "3", "4", "5", "6", "7", "8", "9">>

IsNumeric(c) == \E d \in 1..10 : DigitChars[d] = c

DigitValue(c) == (CHOOSE d \in 1..10 : DigitChars[d] = c) - 1

\* char::to_lowercase on the letters the inputs use
LowerChar(c) ==
    CASE c = "G" -> "g"
      [] c = "M" -> "m"
      [] c = "B" -> "b"
      [] c = "K" -> "k"
      [] OTHER -> c

ToLowercase(s) == [i \in 1..Len(s) |-> LowerChar(s[i])]

EndsWith(s, suffix) ==
    /\ Len(s) >= Len(suffix)
    /\ SubSeq(s, Len(s) - Len(suffix) + 1, Len(s)) = suffix

\* x shifted up by k limbs (x * 2^(15k))
ShiftLimbs(x, k) == [i \in 1..NLimbs |-> IF i > k THEN x[i - k] ELSE 0]

RECURSIVE MulAcc(_, _, _)
MulAcc(x, y, i) ==
    IF i > NLimbs THEN Zero
    ELSE BAdd(ShiftLimbs(BMulSmall(x, y[i]), i - 1), MulAcc(x, y, i + 1))

\* exact product (the operands used keep it below 2^120)
BMul(x, y) == MulAcc(x, y, 1)

\* decimal digits of x, most significant first (acc: the digits below x's)
RECURSIVE DecimalFrom(_, _)
DecimalFrom(x, acc) ==
    LET q    == BDivSmall(x, 10)
        acc2 == <<DigitChars[BModSmall(x, 10) + 1]>> \o acc
    IN  IF Len(q) = NLimbs /\ Len(acc2) > 0 /\ q # Zero
        THEN DecimalFrom(q, acc2)
        ELSE acc2

Decimal(x) == DecimalFrom(x, <<>>)

\* s left-padded with "0" to at least width characters
ZeroPad(s, width) ==
    IF Len(s) >= width THEN s
    ELSE [i \in 1..(width - Len(s)) |-> "0"] \o s

\* exact value of the digit string s (no width applied); acc: value of s[1..i-1]
RECURSIVE DecimalValueFrom(_, _, _)
DecimalValueFrom(s, i, acc) ==
    IF i > Len(s) THEN acc
    ELSE LET acc2 == BAdd(BMulSmall(acc, 10), FromInt(DigitValue(s[i])))
         IN  IF Len(acc2) = NLimbs THEN DecimalValueFrom(s, i + 1, acc2) ELSE acc2

DecimalValue(s) == DecimalValueFrom(s, 1, Zero)

Take(s, n) == SubSeq(s, 1, IF n < Len(s) THEN n ELSE Len(s))

(***************************************************************************)
(* Results of operations that can fail or panic.                           *)
(***************************************************************************)
Ok(v) == [kind |-> "ok", val |-> v]

Err(e) == [kind |-> "err", val |-> e]

Panic == [kind |-> "panic", val |-> "panic"]

\* unsigned w-bit arithmetic: the debug profile panics on overflow, the
\* release profile keeps the low w bits
Checked(exact, w, profile) ==
    IF Fits(exact, w) THEN Ok(exact)
    ELSE IF profile = "debug" THEN Panic
    ELSE Ok(Wrap(exact, w))

\* str::parse::<u64>: empty text or a value above u64::MAX is an error
ParseU64(s) ==
    IF s = <<>> \/ Len(s) > 20 THEN Err("parse")
    ELSE IF Fits(DecimalValue(s), 64) THEN Ok(DecimalValue(s))
    ELSE Err("parse")

(***************************************************************************)
(* WorkloadConfig::total_keys and Workload::generate_key                   *)
(***************************************************************************)
Multiplier(size_str) ==
    IF EndsWith(size_str, <<"g", "b">>) THEN BMul(FromInt(1000), FromInt(1000000))
    ELSE IF EndsWith(size_str, <<"m", "b">>) THEN FromInt(1000000)
    ELSE FromInt(1)

SizeNum(size_str) ==
    LET parsed == ParseU64(SelectSeq(size_str, IsNumeric))
    IN  IF parsed.kind = "ok" THEN parsed.val ELSE FromInt(1)

total_keys(dataset_size, key_size, value_size, profile) ==
    LET size_str    == ToLowercase(dataset_size)
        total_bytes == Checked(BMul(SizeNum(size_str), Multiplier(size_str)), 64, profile)
    IN  IF total_bytes.kind = "panic" THEN Panic
        ELSE IF key_size + value_size = 0 THEN Panic
        ELSE Ok(BDivSmall(total_bytes.val, key_size + value_size))

generate_key(key_size, key_num) ==
    Take(<<"k", "e", "y", "_">> \o ZeroPad(Decimal(key_num), 16), key_size)

(***************************************************************************)
(* Inputs.                                                                 *)
(***************************************************************************)
Profiles == {"debug", "release"}

Off == [pc |-> "off"]

Million == FromInt(1000000)

Billion == BMul(FromInt(1000), Million)

U32Max == BSub(Pow2(32), FromInt(1))

U64Max == BSub(Pow2(64), FromInt(1))

\* the numeric part of a dataset size: ordinary sizes, and the sizes on either
\* side of u64::MAX / unit for both units
DatasetNumbers ==
    { Decimal(FromInt(1)), Decimal(FromInt(100)), Decimal(FromInt(2048)),
      Decimal(BDiv(U64Max, Billion)), Decimal(BAdd(BDiv(U64Max, Billion), FromInt(1))),
      Decimal(BDiv(U64Max, Million)), Decimal(BAdd(BDiv(U64Max, Million), FromInt(1))),
      Decimal(U64Max) }

DatasetUnits ==
    { <<"G", "B">>, <<"g", "b">>, <<"G", "b">>, <<"M", "B">>, <<"m", "b">>,
      <<"m", "B">>, <<>> }

KeySizes == {1, 4, 16, 19, 20, 21, 32}

ValueSizes == {1, 1024}

KeyNums ==
    { FromInt(0), FromInt(42), FromInt(9999), FromInt(10000),
      BSub(BMul(Billion, FromInt(10000000)), FromInt(1)),
      BMul(Billion, FromInt(10000000)), U64Max }

(***************************************************************************)
(* Key-space sizing and key generation applied to drawn inputs.            *)
(***************************************************************************)
NoKeyInput ==
    [dataset_size |-> <<>>, key_size |-> 0, value_size |-> 0, key_num |-> Zero,
     total |-> Panic, key |-> <<>>]

InitKeys ==
    /\ build \in Profiles
    /\ \/ \E n \in DatasetNumbers, u \in DatasetUnits, ks \in KeySizes, vs \in ValueSizes :
             gen = [NoKeyInput EXCEPT !.dataset_size = n \o u, !.key_size = ks,
                                      !.value_size = vs]
                   @@ [pc |-> "input", fn |-> "total_keys"]
       \/ \E ks \in KeySizes, i \in KeyNums :
             gen = [NoKeyInput EXCEPT !.key_size = ks, !.key_num = i]
                   @@ [pc |-> "input", fn |-> "generate_key"]
    /\ cli = Off /\ wl = Off /\ eng = Off /\ rep = Off
    /\ mc = Off /\ bench = Off

CallTotalKeys ==
    /\ gen.pc = "input" /\ gen.fn = "total_keys"
    /\ gen' = [gen EXCEPT !.pc = "returned",
                          !.total = total_keys(gen.dataset_size, gen.key_size,
                                               gen.value_size, build)]
    /\ UNCHANGED <<build, cli, wl, eng, rep, mc, bench>>

CallGenerateKey ==
    /\ gen.pc = "input" /\ gen.fn = "generate_key"
    /\ gen' = [gen EXCEPT !.pc = "returned",
                          !.key = generate_key(gen.key_size, gen.key_num)]
    /\ UNCHANGED <<build, cli, wl, eng, rep, mc, bench>>

NextKeys == CallTotalKeys \/ CallGenerateKey

SpecKeys == InitKeys /\ [][NextKeys]_vars

(***************************************************************************)
(* Claims on key-space sizing and key generation.                          *)
(***************************************************************************)
\* the {N}{gb|mb} reading of a dataset size, any letter case
UnitOf(dataset_size) ==
    LET n == Len(dataset_size)
        u == IF n >= 2 THEN SubSeq(dataset_size, n - 1, n) ELSE <<>>
    IN  IF u \in {<<"G", "B">>, <<"g", "b">>, <<"G", "b">>, <<"g", "B">>} THEN Billion
        ELSE IF u \in {<<"M", "B">>, <<"m", "b">>, <<"M", "b">>, <<"m", "B">>} THEN Million
        ELSE Zero

NumberOf(dataset_size) == DecimalValue(SubSeq(dataset_size, 1, Len(dataset_size) - 2))

\* floor(N * unit / (key_size + value_size)), without any machine width
ExactKeys(dataset_size, key_size, value_size) ==
    BDivSmall(BMul(NumberOf(dataset_size), UnitOf(dataset_size)),
              key_size + value_size)

\* C5: for every size {N}{gb|mb} with N in u64 and key_size, value_size > 0,
\* total_keys() returns floor(N * unit / (key_size + value_size)), and "1MB"
\* with key_size 16 and value_size 1024 gives 961.
C5_TotalKeysExact ==
    (/\ gen.pc = "returned" /\ gen.fn = "total_keys"
     /\ UnitOf(gen.dataset_size) # Zero
     /\ Fits(NumberOf(gen.dataset_size), 64)
     /\ gen.key_size > 0 /\ gen.value_size > 0)
    => /\ gen.total = Ok(ExactKeys(gen.dataset_size, gen.key_size, gen.value_size))
       /\ (gen.dataset_size = <<"1", "M", "B">> /\ gen.key_size = 16
             /\ gen.value_size = 1024) => gen.total = Ok(FromInt(961))

\* C7: every generated key is exactly key_size bytes long.
C7_KeyHasKeySize ==
    (gen.pc = "returned" /\ gen.fn = "generate_key") => Len(gen.key) = gen.key_size

(***************************************************************************)
(* Engines (engine.rs): byte counters, get_statistics, and                 *)
(* Workload::calculate_write_amplification.                                *)
(***************************************************************************)
\* AtomicU64::fetch_add wraps in every profile
FetchAdd(counter, n) == Wrap(BAdd(counter, n), 64)

\* val.parse().unwrap_or(0) of a property the engine reports (native.available),
\* else the initial 0
PropertyOr0(native, field) == IF native.available THEN native[field] ELSE Zero

RocksDB_get_statistics(e, profile) ==
    LET reported == PropertyOr0(e.native, "compact_write")
        doubled  == Checked(BMulSmall(e.bytes_written, 2), 64, profile)
        estimate == reported = Zero /\ e.bytes_written # Zero
    IN  IF estimate /\ doubled.kind = "panic" THEN Panic
        ELSE Ok([bytes_written |-> e.bytes_written,
                 bytes_read |-> e.bytes_read,
                 compaction_bytes_written |-> IF estimate THEN doubled.val ELSE reported,
                 compaction_bytes_read |-> PropertyOr0(e.native, "compact_read")])

Sled_get_statistics(e, profile) ==
    LET size_on_disk == IF e.disk.kind = "ok" THEN e.disk.val ELSE Zero
        pages == BMulSmall(BDivSmall(e.bytes_written, 8192), 8192)
        estimated_page_rewrites ==
            IF e.bytes_written # Zero THEN Checked(BMulSmall(pages, 10), 64, profile)
            ELSE Ok(Zero)
    IN  IF estimated_page_rewrites.kind = "panic" THEN Panic
        ELSE Ok([bytes_written |-> e.bytes_written,
                 bytes_read |-> e.bytes_read,
                 compaction_bytes_written |-> estimated_page_rewrites.val,
                 compaction_bytes_read |-> size_on_disk])

get_statistics(e, profile) ==
    IF e.kind = "RocksDB" THEN RocksDB_get_statistics(e, profile)
    ELSE Sled_get_statistics(e, profile)

\* StorageEngine::metrics of benchmark.rs for both engines; a ratio is the
\* pair <<numerator, denominator>> of the f64 division
metrics(e, profile) ==
    LET bytes_written == e.bytes_written
        doubled  == Checked(BMulSmall(bytes_written, 2), 64, profile)
        rewrites == Checked(BMulSmall(BMulSmall(BDivSmall(bytes_written, 8192), 8192), 10),
                            64, profile)
        extra    == IF e.kind = "Sled" THEN rewrites
                    ELSE IF doubled.kind = "panic" THEN Panic
                    ELSE IF e.native.available THEN Ok(e.native.compact_write)
                    ELSE doubled
        total    == IF extra.kind = "panic" THEN Panic
                    ELSE IF bytes_written = Zero THEN Ok(Zero)
                    ELSE Checked(BAdd(bytes_written, extra.val), 64, profile)
        dir_size == IF e.disk.kind = "ok" THEN e.disk.val ELSE Zero
        one      == <<FromInt(1), FromInt(1)>>
    IN  IF total.kind = "panic" THEN Panic
        ELSE Ok([write_amplification |->
                     IF bytes_written = Zero THEN one ELSE <<total.val, bytes_written>>,
                 space_amplification |->
                     IF bytes_written = Zero THEN one ELSE <<dir_size, bytes_written>>,
                 compaction_stats |->
                     <<IF e.kind = "Sled" THEN dir_size
                       ELSE PropertyOr0(e.native, "compact_read"), extra.val>>])

\* round(x * 100) of x = num / den for den # 0 (f64 taken as exact)
RoundHundredths(num, den) ==
    BDiv(BAdd(BMulSmall(num, 200), den), BMulSmall(den, 2))

\* the result in hundredths: (waf * 100.0).round()
calculate_write_amplification(stats, profile) ==
    IF stats.kind = "panic" THEN Panic
    ELSE IF stats.val.bytes_written = Zero THEN Ok(FromInt(100))
    ELSE LET total_disk_writes ==
                 Checked(BAdd(stats.val.bytes_written,
                              stats.val.compaction_bytes_written), 64, profile)
         IN  IF total_disk_writes.kind = "panic" THEN Panic
             ELSE Ok(RoundHundredths(total_disk_writes.val, stats.val.bytes_written))

(***************************************************************************)
(* Reporting: compare_engines (benchmark.rs) and print_markdown_report     *)
(* (analyzer.rs).  A measured f64 is a natural; a ratio is the pair        *)
(* <<numerator, denominator>> of the division the code performs.           *)
(***************************************************************************)
\* "{:.1}" of num / den, in tenths; a zero denominator prints inf or NaN
Shown(num, den) ==
    IF den = 0 THEN (IF num = 0 THEN "NaN" ELSE "inf")
    ELSE (20 * num + den) \div (2 * den)

\* a throughput row that compares like the lower-is-better rows
ThroughputRowLowerWins(r0, r1) ==
    LET t_winner == IF r0.throughput < r1.throughput THEN 0 ELSE 1
        win  == IF t_winner = 0 THEN r0.throughput ELSE r1.throughput
        lose == IF t_winner = 0 THEN r1.throughput ELSE r0.throughput
    IN  [metric |-> "throughput", winner |-> t_winner, ratio |-> <<win, lose>>,
         shown |-> Shown(win, lose)]

\* the throughput row of compare_engines; results are indexed 0 and 1
ThroughputRow(r0, r1) ==
    LET t_winner == IF r0.throughput > r1.throughput THEN 0 ELSE 1
        win  == IF t_winner = 0 THEN r0.throughput ELSE r1.throughput
        lose == IF t_winner = 0 THEN r1.throughput ELSE r0.throughput
    IN  [metric |-> "throughput", winner |-> t_winner, ratio |-> <<win, lose>>,
         shown |-> Shown(win, lose)]

\* a lower-is-better row of compare_engines for metric m
LowerWinsRow(m, r0, r1) ==
    LET winner == IF r0[m] < r1[m] THEN 0 ELSE 1
        win  == IF winner = 0 THEN r0[m] ELSE r1[m]
        lose == IF winner = 0 THEN r1[m] ELSE r0[m]
    IN  [metric |-> m, winner |-> winner, ratio |-> <<lose, win>>,
         shown |-> Shown(lose, win)]

LowerWinsMetrics ==
    <<"write_p99_ms", "read_p99_ms", "scan_p99_ms", "write_amplification",
      "space_amplification", "memory_usage_mb">>

\* the table compare_engines prints for results[0], results[1]
compare_engines(r0, r1) ==
    <<ThroughputRow(r0, r1)>>
    \o [i \in 1..Len(LowerWinsMetrics) |-> LowerWinsRow(LowerWinsMetrics[i], r0, r1)]

\* position of the first result of engine e in results, 0 if there is none
Find(results, e) ==
    IF \E i \in 1..Len(results) : results[i].engine_type = e
    THEN CHOOSE i \in 1..Len(results) :
            /\ results[i].engine_type = e
            /\ \A j \in 1..(i - 1) : results[j].engine_type # e
    ELSE 0

\* the lines print_markdown_report writes, as tokens
print_markdown_report(results) ==
    LET ri == Find(results, "RocksDB")
        si == Find(results, "Sled")
        r  == results[ri]
        sl == results[si]
        summary ==
            IF ri # 0 /\ si # 0
            THEN << [line |-> "row", metric |-> "throughput",
                     winner |-> IF r.throughput > sl.throughput THEN "RocksDB" ELSE "Sled"],
                    [line |-> "row", metric |-> "write_p99",
                     winner |-> IF r.write_p99 < sl.write_p99 THEN "RocksDB" ELSE "Sled"],
                    [line |-> "row", metric |-> "read_p99",
                     winner |-> IF r.read_p99 < sl.read_p99 THEN "RocksDB" ELSE "Sled"],
                    [line |-> "row", metric |-> "write_amplification",
                     winner |-> IF r.write_amplification < sl.write_amplification
                                THEN "RocksDB" ELSE "Sled"] >>
            ELSE <<>>
    IN  <<[line |-> "title"], [line |-> "summary_header"]>>
        \o summary
        \o <<[line |-> "details_header"]>>
        \o [i \in 1..Len(results) |-> [line |-> "section", engine |-> results[i].engine_type]]

\* measured values the two results are drawn from (ops/sec, ms, ratios, MB)
Measured == {0, 1000, 1500}

\* results[0] (RocksDB) and results[1] (Sled) of compare_engines
EngineResult(name, t, lat, amp) ==
    [engine_name |-> name, throughput |-> t, write_p99_ms |-> lat, read_p99_ms |-> lat,
     scan_p99_ms |-> lat, write_amplification |-> amp, space_amplification |-> amp,
     memory_usage_mb |-> amp]

\* the same measurements as a metrics.rs BenchmarkResult of the results file
FileResult(e, t, lat, amp) ==
    [engine_type |-> e, throughput |-> t, write_p99 |-> lat, read_p99 |-> lat,
     write_amplification |-> amp]

InitReport ==
    /\ build \in Profiles
    /\ \E t0 \in Measured, t1 \in Measured, l0 \in Measured, l1 \in Measured,
          a0 \in Measured, a1 \in Measured, fn \in {"compare_engines", "analyze"} :
          rep = [pc |-> "input", fn |-> fn,
                 r0 |-> EngineResult("RocksDB (LSM)", t0, l0, a0),
                 r1 |-> EngineResult("Sled (B-Tree)", t1, l1, a1),
                 results |-> <<FileResult("RocksDB", t0, l0, a0),
                               FileResult("Sled", t1, l1, a1)>>,
                 table |-> <<>>, report |-> <<>>]
    /\ gen = Off /\ cli = Off /\ wl = Off /\ eng = Off
    /\ mc = Off /\ bench = Off

CompareEngines ==
    /\ rep.pc = "input" /\ rep.fn = "compare_engines"
    /\ rep' = [rep EXCEPT !.pc = "printed", !.table = compare_engines(rep.r0, rep.r1)]
    /\ UNCHANGED <<build, gen, cli, wl, eng, mc, bench>>

AnalyzeMarkdown ==
    /\ rep.pc = "input" /\ rep.fn = "analyze"
    /\ rep' = [rep EXCEPT !.pc = "printed", !.report = print_markdown_report(rep.results)]
    /\ UNCHANGED <<build, gen, cli, wl, eng, mc, bench>>

NextReport == CompareEngines \/ AnalyzeMarkdown

SpecReport == InitReport /\ [][NextReport]_vars

(***************************************************************************)
(* Claims on the comparative report.                                       *)
(***************************************************************************)
Value(r, m) == r[m]

\* row i of the printed table, with the two values it compares
RowOK(i, losesOverWins) ==
    LET row  == rep.table[i]
        m    == row.metric
        v0   == Value(rep.r0, m)
        v1   == Value(rep.r1, m)
        win  == IF row.winner = 0 THEN v0 ELSE v1
        lose == IF row.winner = 0 THEN v1 ELSE v0
    IN  /\ row.winner \in {0, 1}
        /\ IF m = "throughput" THEN win >= lose ELSE win <= lose
        /\ row.ratio = IF losesOverWins THEN <<lose, win>> ELSE <<win, lose>>

Scenario1000v1500 ==
    rep.r0.throughput = 1000 /\ rep.r1.throughput = 1500

ScenarioOK ==
    Scenario1000v1500 => rep.table[1].winner = 1 /\ rep.table[1].shown = 15

ComparedTable == rep.pc = "printed" /\ rep.fn = "compare_engines"

MaxEngineSteps == 3

\* a Put step stands for n equal puts of b = key.len() + value.len() bytes: <<n, b>>
PutBursts ==
    { <<FromInt(1), 1040>>, <<FromInt(1), 8192>>, <<BMulSmall(Pow2(48), 3), 8192>>,
      <<Pow2(50), 8192>> }

\* key.len() + value.len() of a found get
GetBytes == {1040}

\* amounts the backend's cumulative compaction counters grow by
CompactionBytes == {FromInt(500), Pow2(63)}

\* sizes of the engine directory (size_on_disk), or the error reading it
DiskSizes == {Ok(Zero), Ok(FromInt(4096)), Err("io")}

NoStats == [kind |-> "none", val |-> "none"]

InitEngine ==
    /\ build \in Profiles
    /\ \E k \in {"RocksDB", "Sled"}, a \in BOOLEAN :
          eng = [pc |-> "open", kind |-> k, bytes_written |-> Zero, bytes_read |-> Zero,
                 native |-> [available |-> a, compact_write |-> Zero, compact_read |-> Zero],
                 disk |-> Ok(Zero), prev |-> NoStats, last |-> NoStats, waf |-> NoStats,
                 metrics |-> NoStats, steps |-> 0]
    /\ gen = Off /\ cli = Off /\ wl = Off /\ rep = Off
    /\ mc = Off /\ bench = Off

EngineStep == eng.pc = "open" /\ eng.steps < MaxEngineSteps

\* put: the counter is bumped before the backend is called, whatever it returns
Put ==
    /\ EngineStep
    /\ \E p \in PutBursts :
          eng' = [eng EXCEPT !.bytes_written = FetchAdd(@, BMulSmall(p[1], p[2])),
                             !.steps = @ + 1]
    /\ UNCHANGED <<build, gen, cli, wl, rep, mc, bench>>

\* get: only a found value is counted
Get ==
    /\ EngineStep
    /\ \E b \in GetBytes, found \in BOOLEAN :
          eng' = [eng EXCEPT !.bytes_read = IF found THEN FetchAdd(@, FromInt(b)) ELSE @,
                             !.steps = @ + 1]
    /\ UNCHANGED <<build, gen, cli, wl, rep, mc, bench>>

\* the backend compacts: its cumulative counters grow
Compaction ==
    /\ EngineStep
    /\ \E c \in CompactionBytes :
          /\ Fits(BAdd(eng.native.compact_write, c), 64)
          /\ eng' = [eng EXCEPT !.native.compact_write = BAdd(@, c),
                                !.native.compact_read = BAdd(@, c),
                                !.steps = @ + 1]
    /\ UNCHANGED <<build, gen, cli, wl, rep, mc, bench>>

\* the engine directory grows or shrinks
DiskChange ==
    /\ EngineStep
    /\ \E d \in DiskSizes : eng' = [eng EXCEPT !.disk = d, !.steps = @ + 1]
    /\ eng'.disk # eng.disk
    /\ UNCHANGED <<build, gen, cli, wl, rep, mc, bench>>

GetStatistics ==
    /\ EngineStep
    /\ eng.last.kind # "panic"
    /\ eng' = [eng EXCEPT !.prev = eng.last, !.last = get_statistics(eng, build),
                          !.steps = @ + 1]
    /\ UNCHANGED <<build, gen, cli, wl, rep, mc, bench>>

\* the end of a run: statistics are read and the amplification reported
CalculateWriteAmplification ==
    /\ eng.pc = "open"
    /\ eng.last.kind # "panic"
    /\ LET stats == get_statistics(eng, build)
       IN  eng' = [eng EXCEPT !.pc = "reported", !.prev = eng.last, !.last = stats,
                              !.waf = calculate_write_amplification(stats, build)]
    /\ UNCHANGED <<build, gen, cli, wl, rep, mc, bench>>

\* the end of Benchmark::run: engine.metrics()
Metrics ==
    /\ eng.pc = "open"
    /\ eng.last.kind # "panic"
    /\ eng' = [eng EXCEPT !.pc = "measured", !.metrics = metrics(eng, build)]
    /\ UNCHANGED <<build, gen, cli, wl, rep, mc, bench>>

NextEngine ==
    \/ Put
    \/ Get
    \/ Compaction
    \/ DiskChange
    \/ GetStatistics
    \/ CalculateWriteAmplification
    \/ Metrics

SpecEngine == InitEngine /\ [][NextEngine]_vars

(***************************************************************************)
(* Claims on engine statistics and write amplification.                    *)
(***************************************************************************)
StatFields ==
    {"bytes_written", "bytes_read", "compaction_bytes_written", "compaction_bytes_read"}

\* C6: the reported write amplification is (bytes_written +
\* compaction_bytes_written) / bytes_written of the statistics (to the two
\* decimals reported), 1.0 when bytes_written is 0 and at least 1.0 otherwise,
\* for all u64 counter values.
C6_WriteAmplification ==
    eng.pc = "reported" =>
        /\ eng.last.kind = "ok" /\ eng.waf.kind = "ok"
        /\ LET st == eng.last.val
           IN  IF st.bytes_written = Zero THEN eng.waf.val = FromInt(100)
               ELSE /\ eng.waf.val =
                         RoundHundredths(BAdd(st.bytes_written, st.compaction_bytes_written),
                                         st.bytes_written)
                    /\ BLe(FromInt(100), eng.waf.val)

\* C10: of any two get_statistics calls on an engine the later one returns,
\* in every field, a value at least the earlier one's.
C10_StatisticsMonotone ==
    (eng.pc # "off" /\ eng.prev.kind = "ok" /\ eng.last.kind = "ok") =>
        \A f \in StatFields : BLe(eng.prev.val[f], eng.last.val[f])

\* C12: the reported space amplification is disk_size_bytes / bytes_written,
\* at least 1.0 whenever bytes_written is not 0, and exactly 1.0 when it is 0.
C12_SpaceAmplification ==
    (eng.pc = "measured" /\ eng.metrics.kind = "ok") =>
        LET saf  == eng.metrics.val.space_amplification
            disk == IF eng.disk.kind = "ok" THEN eng.disk.val ELSE Zero
        IN  IF eng.bytes_written = Zero THEN saf[1] = saf[2] /\ saf[2] # Zero
            ELSE /\ saf = <<disk, eng.bytes_written>>
                 /\ BLe(saf[2], saf[1])

\* C18: for RocksDB the compaction_bytes_written behind the amplification is
\* the counter the engine reports whenever it reports one, a reported 0
\* included, and bytes_written * 2 only when it reports none.
C18_PrefersReportedCounter ==
    (eng.pc = "reported" /\ eng.kind = "RocksDB" /\ eng.last.kind = "ok") =>
        eng.last.val.compaction_bytes_written =
            IF eng.native.available THEN eng.native.compact_write
            ELSE Wrap(BMulSmall(eng.bytes_written, 2), 64)

(***************************************************************************)
(* WorkloadConfig::from_file and run_benchmark (main.rs), followed by the  *)
(* analyze command on the results file that run_benchmark wrote.           *)
(***************************************************************************)
ConfigError == "Writes + reads must equal 100%"

\* file: [status, writes, reads] with writes, reads any u32
from_file(file, profile) ==
    IF file.status = "missing" THEN Err("io")
    ELSE IF file.status = "malformed" THEN Err("yaml")
    ELSE LET sum == Checked(BAdd(file.writes, file.reads), 32, profile)
         IN  IF sum.kind = "panic" THEN Panic
             ELSE IF sum.val # FromInt(100) THEN Err(ConfigError)
             ELSE Ok([writes |-> file.writes, reads |-> file.reads])

\* the engines run_benchmark selects for --engine
SelectedEngines(arg) ==
    CASE arg = "rocksdb" -> Ok(<<"RocksDB">>)
      [] arg = "sled" -> Ok(<<"Sled">>)
      [] arg = "both" -> Ok(<<"RocksDB", "Sled">>)
      [] OTHER -> Err("Invalid engine type")

\* u32 percentages: ordinary ones and ones whose sum leaves 32 bits
Percentages ==
    { FromInt(0), FromInt(30), FromInt(70), FromInt(100), FromInt(101), FromInt(200),
      BAdd(Pow2(31), FromInt(50)), BSub(Pow2(32), FromInt(100)), U32Max }

EngineArgs == {"rocksdb", "sled", "both", "lmdb"}

ConfigFiles ==
    [status : {"ok"}, writes : Percentages, reads : Percentages]
    \cup [status : {"missing", "malformed"}, writes : {Zero}, reads : {Zero}]

NoReport == [pc |-> "none", fn |-> "analyze", results |-> <<>>, report |-> <<>>]

InitMain ==
    /\ build \in Profiles
    /\ \E f \in ConfigFiles, a \in EngineArgs :
          cli = [pc |-> "load", file |-> f, arg |-> a, config |-> NoStats,
                 engines |-> <<>>, created |-> {}, completed |-> {}, failed |-> {},
                 results |-> <<>>, saved |-> NoStats, exit |-> "none"]
    /\ rep = NoReport
    /\ gen = Off /\ wl = Off /\ eng = Off
    /\ mc = Off /\ bench = Off

Exit(c, how) == [c EXCEPT !.pc = "exit", !.exit = how]

\* let config = WorkloadConfig::from_file(&workload_path)?;
LoadConfig ==
    /\ cli.pc = "load"
    /\ LET config == from_file(cli.file, build)
           c == [cli EXCEPT !.config = config]
       IN  cli' = IF config.kind = "ok" THEN [c EXCEPT !.pc = "select"]
                  ELSE Exit(c, config.kind)
    /\ UNCHANGED <<build, gen, wl, eng, rep, mc, bench>>

\* let engines = match engine_type.as_str() { ... };
SelectEngines ==
    /\ cli.pc = "select"
    /\ LET engines == SelectedEngines(cli.arg)
       IN  cli' = IF engines.kind = "ok"
                  THEN [cli EXCEPT !.pc = "create", !.engines = engines.val]
                  ELSE Exit(cli, "err")
    /\ UNCHANGED <<build, gen, wl, eng, rep, mc, bench>>

\* tempfile::tempdir()? and engine::create_engine(..)? for the next engine
CreateEngine ==
    /\ cli.pc = "create"
    /\ \E opened \in BOOLEAN :
          cli' = IF opened
                 THEN [cli EXCEPT !.pc = "run", !.created = @ \cup {Head(cli.engines)}]
                 ELSE Exit([cli EXCEPT !.failed = @ \cup {Head(cli.engines)}], "err")
    /\ UNCHANGED <<build, gen, wl, eng, rep, mc, bench>>

\* let result = workload.run().await?; results.push(result);
RunWorkload ==
    /\ cli.pc = "run"
    /\ LET e == Head(cli.engines)
       IN  \/ \E t \in {1000, 1500} :
                cli' = [cli EXCEPT !.results = Append(@, FileResult(e, t, 1000, 1000)),
                                   !.completed = @ \cup {e},
                                   !.engines = Tail(@),
                                   !.pc = IF Tail(cli.engines) = <<>> THEN "save"
                                          ELSE "create"]
           \/ cli' = Exit([cli EXCEPT !.failed = @ \cup {e}], "err")
    /\ UNCHANGED <<build, gen, wl, eng, rep, mc, bench>>

\* serde_json::to_string_pretty(&results)?; std::fs::write(output_path, ..)?;
SaveResults ==
    /\ cli.pc = "save"
    /\ \E written \in BOOLEAN :
          cli' = IF written THEN Exit([cli EXCEPT !.saved = Ok(cli.results)], "ok")
                 ELSE Exit(cli, "err")
    /\ UNCHANGED <<build, gen, wl, eng, rep, mc, bench>>

\* analyze <results file> --format markdown
AnalyzeSaved ==
    /\ cli.pc = "exit" /\ cli.saved.kind = "ok" /\ rep.pc = "none"
    /\ rep' = [rep EXCEPT !.pc = "printed", !.results = cli.saved.val,
                          !.report = print_markdown_report(cli.saved.val)]
    /\ UNCHANGED <<build, gen, cli, wl, eng, mc, bench>>

NextMain ==
    LoadConfig \/ SelectEngines \/ CreateEngine \/ RunWorkload \/ SaveResults
    \/ AnalyzeSaved

SpecMain == InitMain /\ [][NextMain]_vars

(***************************************************************************)
(* Claims on configuration loading and on runs of several engines.         *)
(***************************************************************************)
\* C1: from_file accepts a config exactly when writes + reads = 100, for all
\* u32 values; every other config is rejected with the configuration error,
\* before run_benchmark creates an engine.
C1_AcceptsExactlySum100 ==
    (cli.pc \notin {"off", "load"} /\ cli.file.status = "ok") =>
        IF BAdd(cli.file.writes, cli.file.reads) = FromInt(100)
        THEN cli.config.kind = "ok"
        ELSE cli.config = Err(ConfigError) /\ cli.created = {}

\* the report names engine e as missing
FlagsMissing(report, e) ==
    \E i \in 1..Len(report) : report[i].line = "missing" /\ report[i].engine = e

\* C9: when several engines are benchmarked and one fails, the results of the
\* engines that completed are saved and reported, and the report flags each
\* missing engine.
C9_PartialComparison ==
    (cli.pc = "exit" /\ cli.arg = "both" /\ cli.failed # {} /\ cli.completed # {}) =>
        /\ cli.saved = Ok(cli.results)
        /\ rep.pc = "printed" =>
              \A e \in cli.failed : FlagsMissing(rep.report, e)

(***************************************************************************)
(* Workload::run (workload.rs).  StdRng is a deterministic generator whose *)
(* words are unknown to the model: word n after seeding with s is          *)
(* Word(u, ..), a fixed function of (s, n) for each value u of wl.chacha.  *)
(* The engine is the opaque collaborator: its calls are logged and call    *)
(* number wl.failAt returns an error (0: none does).                       *)
(***************************************************************************)
Word(u, rng) ==
    (u + rng.seed * 104729 + rng.n * 31337 + rng.n * rng.n * 7) % 65536

Advance(rng, k) == [rng EXCEPT !.n = @ + k]

\* StdRng::from_entropy() in the run of process id
from_entropy(id) == [seed |-> 42 + id, n |-> 0]

\* StdRng::seed_from_u64(42) in the run of process id
seed_from_u64_42(id) == [seed |-> 42, n |-> 0]

\* x < 2^30 as an integer
ToInt(x) == x[1] + x[2] * LimbBase

\* rng.gen_range(0..total_keys) for total_keys # 0, as a Big
KeyNum(u, rng, total) ==
    IF BLt(FromInt(Word(u, rng)), total) THEN FromInt(Word(u, rng))
    ELSE FromInt(Word(u, rng) % ToInt(total))

\* (0..value_size).map(|_| rng.gen::<u8>()).collect()
generate_value(u, rng, value_size) ==
    [j \in 1..value_size |-> Word(u, Advance(rng, j - 1)) % 256]

\* the operation the timed loop of Workload::run performs for draw r
OpClass(config, r) == IF BLt(FromInt(r), config.writes) THEN "write" ELSE "read"

\* the operation the loop of Benchmark::run performs for draw op_type
BenchOpClass(op_type, write_ratio, scan_ratio) ==
    IF op_type < write_ratio THEN "write"
    ELSE IF op_type < write_ratio + scan_ratio THEN "scan"
    ELSE "read"

\* Benchmark::new(): write_ratio and scan_ratio
BenchWriteRatio == 70

BenchScanRatio == 10

\* the cadence of the periodic flush (10_000 in Workload::run), scaled
FlushEvery == 2

\* cap on the timed operations of one run
MaxOps == 3

\* an engine call by run r: logged, and failing when it is call wl.failAt
EngineCall(w, r, entry) ==
    [r EXCEPT !.calls = @ + 1,
              !.log = Append(@, entry @@ [ok |-> (r.calls + 1 # w.failAt)])]

LastOk(r) == r.log[Len(r.log)].ok

\* the `?` of a failed engine call: run returns the error
Returned(r, result) == [r EXCEPT !.pc = "done", !.result = result]

Flush(w, r, phase) == EngineCall(w, r, [op |-> "flush", phase |-> phase])

\* Histogram::new_with_bounds(low, high, 3): the first value the buckets do not
\* cover, 2048 << k for the least k that puts it above high
RECURSIVE SmallestUntrackable(_, _)
SmallestUntrackable(high, s) ==
    IF s > high THEN s ELSE SmallestUntrackable(high, 2 * s)

\* Histogram::record: a value the buckets do not cover is an error
record(hist, high, value) ==
    IF value < SmallestUntrackable(high, 2048) THEN Ok(Append(hist, value))
    ELSE Err("ValueOutOfRangeResizeDisabled")

\* the high bound of the histograms of MetricsCollector::new
CollectorHigh == 1000000000

\* a panic and what raised it
PanicOf(why) == [kind |-> "panic", val |-> why]

\* the collector's record_*_latency(micros) in run r; the histogram named
\* which is kept as its sample count
collector_record(r, which, micros) ==
    IF record(<<>>, CollectorHigh, micros).kind = "ok" THEN [r EXCEPT ![which] = @ + 1]
    ELSE Returned(r, PanicOf("record"))

\* a cadence test that is true one operation late
PeriodicFlushDueLate(operations) == operations % FlushEvery = 1

\* operations % 10_000 == 0, with the cadence scaled
PeriodicFlushDue(operations) == operations % FlushEvery = 0

IdleRun ==
    [pc |-> "idle", total_keys |-> Zero, count |-> Zero, i |-> 0,
     rng |-> [seed |-> 0, n |-> 0], operations |-> 0, elapsed |-> 0, calls |-> 0,
     log |-> <<>>, write_hist |-> 0, read_hist |-> 0, result |-> NoStats,
     pb |-> [spawned |-> FALSE, position |-> 0]]

\* run(): total_keys and the seeding of populate_initial_data(total_keys / 10)
start_run(w, r, id, profile) ==
    LET total == total_keys(w.cfg.dataset_size, w.cfg.key_size, w.cfg.value_size, profile)
    IN  IF total.kind = "panic" THEN Returned(r, Panic)
        ELSE [r EXCEPT !.pc = "populate", !.total_keys = total.val,
                       !.count = BDivSmall(total.val, 10), !.i = 0,
                       !.rng = seed_from_u64_42(id)]

\* one iteration of the loop of populate_initial_data
populate_iteration(w, r) ==
    LET key   == generate_key(w.cfg.key_size, FromInt(r.i))
        value == generate_value(w.chacha, r.rng, w.cfg.value_size)
        put   == EngineCall(w, [r EXCEPT !.rng = Advance(@, w.cfg.value_size)],
                            [op |-> "put", phase |-> "populate", key |-> key,
                             value |-> value])
        next  == [put EXCEPT !.i = @ + 1]
    IN  IF ~LastOk(put) THEN Returned(put, Err("put"))
        ELSE IF r.i % FlushEvery = 0
        THEN LET flushed == Flush(w, next, "populate")
             IN  IF LastOk(flushed) THEN flushed ELSE Returned(flushed, Err("flush"))
        ELSE next

\* the end of populate_initial_data, and run() up to its loop
populate_end(w, r, id) ==
    LET flushed == Flush(w, r, "populate")
    IN  IF ~LastOk(flushed) THEN Returned(flushed, Err("flush"))
        ELSE [flushed EXCEPT !.pc = "loop", !.elapsed = 0, !.operations = 0,
                             !.pb.spawned = TRUE, !.rng = seed_from_u64_42(id)]

\* a write that issues a failed put once more
perform_write_retry(w, r, draw, micros) ==
    IF r.total_keys = Zero THEN Returned(r, PanicOf("empty range"))
    ELSE LET key_num == KeyNum(w.chacha, r.rng, r.total_keys)
             key     == generate_key(w.cfg.key_size, key_num)
             value   == generate_value(w.chacha, Advance(r.rng, 1), w.cfg.value_size)
             entry   == [op |-> "put", phase |-> "timed", draw |-> draw,
                         key_num |-> key_num, key |-> key, value |-> value]
             put     == EngineCall(w, [r EXCEPT !.rng = Advance(@, 1 + w.cfg.value_size)],
                                   entry)
             again   == IF LastOk(put) THEN put ELSE EngineCall(w, put, entry)
         IN  IF LastOk(again) THEN collector_record(again, "write_hist", micros)
             ELSE Returned(again, Err("put"))

perform_write(w, r, draw, micros) ==
    IF r.total_keys = Zero THEN Returned(r, PanicOf("empty range"))
    ELSE LET key_num == KeyNum(w.chacha, r.rng, r.total_keys)
             key     == generate_key(w.cfg.key_size, key_num)
             value   == generate_value(w.chacha, Advance(r.rng, 1), w.cfg.value_size)
             put     == EngineCall(w, [r EXCEPT !.rng = Advance(@, 1 + w.cfg.value_size)],
                                   [op |-> "put", phase |-> "timed", draw |-> draw,
                                    key_num |-> key_num, key |-> key, value |-> value])
         IN  IF LastOk(put) THEN collector_record(put, "write_hist", micros)
             ELSE Returned(put, Err("put"))

perform_read(w, r, draw, micros) ==
    IF r.total_keys = Zero THEN Returned(r, PanicOf("empty range"))
    ELSE LET key_num == KeyNum(w.chacha, r.rng, r.total_keys)
             key     == generate_key(w.cfg.key_size, key_num)
             get     == EngineCall(w, [r EXCEPT !.rng = Advance(@, 1)],
                                   [op |-> "get", phase |-> "timed", draw |-> draw,
                                    key_num |-> key_num, key |-> key, value |-> <<>>])
         IN  IF LastOk(get) THEN collector_record(get, "read_hist", micros)
             ELSE Returned(get, Err("get"))

\* the body of the while loop of run()
timed_iteration(w, r, micros) ==
    LET draw   == Word(w.chacha, r.rng) % 100
        drawn  == [r EXCEPT !.rng = Advance(@, 1)]
        done   == IF OpClass(w.cfg, draw) = "write"
                  THEN perform_write(w, drawn, draw, micros)
                  ELSE perform_read(w, drawn, draw, micros)
        count  == [done EXCEPT !.operations = @ + 1, !.pc = "loop"]
    IN  IF done.pc = "done" THEN done
        ELSE IF PeriodicFlushDue(count.operations)
        THEN LET flushed == Flush(w, count, "timed")
             IN  IF LastOk(flushed) THEN flushed ELSE Returned(flushed, Err("flush"))
        ELSE count

\* the final flush and the BenchmarkResult; stats is what get_statistics returns
finish_run(w, r, stats, profile) ==
    LET flushed == Flush(w, r, "final")
        waf     == calculate_write_amplification(stats, profile)
    IN  IF ~LastOk(flushed) THEN Returned(flushed, Err("flush"))
        ELSE IF waf.kind = "panic" THEN Returned(flushed, Panic)
        ELSE Returned(flushed, Ok([operations |-> r.operations, duration |-> r.elapsed,
                                   writes |-> r.write_hist, reads |-> r.read_hist,
                                   write_amplification |-> waf.val]))

\* (writes, reads) of the configuration files tried
RunPercentages ==
    { <<FromInt(0), FromInt(100)>>, <<FromInt(30), FromInt(70)>>,
      <<FromInt(70), FromInt(30)>>, <<FromInt(100), FromInt(0)>>,
      <<U32Max, FromInt(101)>>, <<FromInt(50), FromInt(60)>> }

\* (key_size, value_size, dataset_size): 20, 10 and 0 keys in total
RunShapes ==
    { <<20, 2, <<"4", "4", "0">> >>, <<8, 1, <<"9", "5">> >>, <<4, 1, <<"3">> >> }

\* duration, in clock ticks
Durations == {0, 2}

\* what an operation of the timed loop may take, in microseconds
RunLatencies == {150, 2000000000}

\* the generators StdRng may be
NUniverses == 5

\* the engine calls one of which may fail
MaxFail == 9

\* the EngineStatistics the engine may report when the run ends
FinalStats ==
    { Ok([bytes_written |-> Zero, compaction_bytes_written |-> Zero]),
      Ok([bytes_written |-> FromInt(1040), compaction_bytes_written |-> FromInt(2080)]),
      Ok([bytes_written |-> Pow2(63), compaction_bytes_written |-> Pow2(63)]) }

\* the configurations from_file accepts in this build
RunConfigs(profile) ==
    { [writes |-> p[1], reads |-> p[2], key_size |-> s[1], value_size |-> s[2],
       dataset_size |-> s[3], duration |-> d] :
        p \in { q \in RunPercentages :
                   from_file([status |-> "ok", writes |-> q[1], reads |-> q[2]],
                             profile).kind = "ok" },
        s \in RunShapes, d \in Durations }

InitRuns(ids, configs, universes) ==
    /\ build \in Profiles
    /\ \E c \in configs, u \in universes, f \in 0..MaxFail :
          wl = [pc |-> "on", cfg |-> c, chacha |-> u, failAt |-> f,
                run |-> [id \in ids |-> IdleRun]]
    /\ gen = Off /\ cli = Off /\ eng = Off /\ rep = Off
    /\ mc = Off /\ bench = Off

InitRun == InitRuns({1}, RunConfigs(build), 0..(NUniverses - 1))

SetRun(id, r) ==
    /\ wl' = [wl EXCEPT !.run[id] = r]
    /\ UNCHANGED <<build, gen, cli, eng, rep, mc, bench>>

StartRun(id) ==
    /\ wl.run[id].pc = "idle"
    /\ SetRun(id, start_run(wl, wl.run[id], id, build))

PopulateIteration(id) ==
    /\ wl.run[id].pc = "populate"
    /\ BLt(FromInt(wl.run[id].i), wl.run[id].count)
    /\ SetRun(id, populate_iteration(wl, wl.run[id]))

PopulateEnd(id) ==
    /\ wl.run[id].pc = "populate"
    /\ ~BLt(FromInt(wl.run[id].i), wl.run[id].count)
    /\ SetRun(id, populate_end(wl, wl.run[id], id))

\* the clock read by start.elapsed() advances
Tick(id) ==
    /\ wl.run[id].pc \in {"loop", "body"}
    /\ wl.run[id].elapsed < wl.cfg.duration
    /\ SetRun(id, [wl.run[id] EXCEPT !.elapsed = @ + 1])

\* while start.elapsed() < duration
LoopCheck(id) ==
    /\ wl.run[id].pc = "loop"
    /\ IF wl.run[id].elapsed < wl.cfg.duration
       THEN /\ wl.run[id].operations < MaxOps
            /\ SetRun(id, [wl.run[id] EXCEPT !.pc = "body"])
       ELSE SetRun(id, [wl.run[id] EXCEPT !.pc = "finish"])

TimedIteration(id) ==
    /\ wl.run[id].pc = "body"
    /\ \E micros \in RunLatencies : SetRun(id, timed_iteration(wl, wl.run[id], micros))

FinishRun(id) ==
    /\ wl.run[id].pc = "finish"
    /\ \E stats \in FinalStats : SetRun(id, finish_run(wl, wl.run[id], stats, build))

NextRun ==
    \E id \in DOMAIN wl.run :
        \/ StartRun(id)
        \/ PopulateIteration(id)
        \/ PopulateEnd(id)
        \/ Tick(id)
        \/ LoopCheck(id)
        \/ TimedIteration(id)
        \/ FinishRun(id)

SpecRun == InitRun /\ [][NextRun]_vars

\* the engine operations of a log, without the flushes
Operations(log) == SelectSeq(log, LAMBDA e : e.op # "flush")

Failed(r) == \E k \in 1..Len(r.log) : ~r.log[k].ok

\* C2: when an engine operation returns an error, it is the last operation
\* the run issues (it is not retried and nothing follows it), and the run
\* has returned that error instead of a BenchmarkResult.
C2_ErrorAbortsRun ==
    wl.pc = "on" =>
        \A id \in DOMAIN wl.run :
            LET r == wl.run[id]
            IN  Failed(r) =>
                    /\ \A k \in 1..Len(r.log) : ~r.log[k].ok => k = Len(r.log)
                    /\ r.pc = "done"
                    /\ r.result.kind = "err"

\* a timed put failed after the population and an earlier timed operation
C2_Witness ==
    /\ wl.pc = "on"
    /\ LET r == wl.run[1]
       IN  /\ Failed(r)
           /\ r.log[Len(r.log)].op = "put"
           /\ r.log[Len(r.log)].phase = "timed"
           /\ r.operations >= 1
           /\ r.result = Err("put")

\* C4: a draw r in 0..99 selects write below write_pct, scan below
\* write_pct + scan_pct and read otherwise, so exactly write_pct of the 100
\* draws select write and exactly scan_pct select scan, in Workload::run
\* (scan_pct = 0) for the configuration loaded and in Benchmark::run.
C4_DrawBuckets ==
    /\ Cardinality({r \in 0..99 :
           BenchOpClass(r, BenchWriteRatio, BenchScanRatio) = "write"}) = BenchWriteRatio
    /\ Cardinality({r \in 0..99 :
           BenchOpClass(r, BenchWriteRatio, BenchScanRatio) = "scan"}) = BenchScanRatio
    /\ wl.pc = "on" =>
          \A id \in DOMAIN wl.run :
              wl.run[id].operations >= 1 =>
                  /\ \A r \in 0..99 :
                        OpClass(wl.cfg, r) = "write" <=> BLt(FromInt(r), wl.cfg.writes)
                  /\ FromInt(Cardinality({r \in 0..99 : OpClass(wl.cfg, r) = "write"}))
                        = wl.cfg.writes
                  /\ FromInt(Cardinality({r \in 0..99 : OpClass(wl.cfg, r) = "read"}))
                        = wl.cfg.reads
                  /\ \A k \in 1..Len(wl.run[id].log) :
                        LET e == wl.run[id].log[k]
                        IN  e.op # "flush" /\ e.phase = "timed" =>
                                (e.op = "put" <=> BLt(FromInt(e.draw), wl.cfg.writes))

(***************************************************************************)
(* Benchmark::run (benchmark.rs): the fixed comparison workload.           *)
(***************************************************************************)
\* the highest value the histograms of Benchmark::run track, microseconds
BenchHigh == 1000000

\* keys written by the population of Benchmark::run (5,000 in the code);
\* writes draw from twice as many, scans and reads from as many
BenchPopulate == 2

\* operations between two periodic flushes of Benchmark::run (5,000)
BenchFlushEvery == 2

\* periodic flushes in num_operations (50,000 / 5,000)
BenchPeriods == 2

\* value_size of Benchmark::new() (1,024)
BenchValueSize == 2

\* format!("key_{:08}", key_num)
bench_key(key_num) == <<"k", "e", "y", "_">> \o ZeroPad(Decimal(FromInt(key_num)), 8)

BenchIdle ==
    [pc |-> "populate", i |-> 0, rng |-> seed_from_u64_42(1), operations |-> 0,
     calls |-> 0, log |-> <<>>, write_hist |-> 0, read_hist |-> 0, scan_hist |-> 0,
     result |-> NoStats]

\* hist.record(micros)?
bench_record(r, which, micros) ==
    IF record(<<>>, BenchHigh, micros).kind = "ok" THEN [r EXCEPT ![which] = @ + 1]
    ELSE Returned(r, Err("record"))

\* one iteration of for i in 0..5000
bench_populate(w, r) ==
    LET put == EngineCall(w, r, [op |-> "put", phase |-> "populate",
                                 key |-> bench_key(r.i),
                                 value |-> [j \in 1..BenchValueSize |-> 0]])
    IN  IF ~LastOk(put) THEN Returned(put, Err("put")) ELSE [put EXCEPT !.i = @ + 1]

\* the flush that ends the population
bench_populated(w, r) ==
    LET flushed == Flush(w, r, "populate")
    IN  IF ~LastOk(flushed) THEN Returned(flushed, Err("flush"))
        ELSE [flushed EXCEPT !.pc = "loop"]

\* one iteration of for _ in 0..self.num_operations
bench_iteration(w, r, micros) ==
    LET op_type == Word(w.chacha, r.rng) % 100
        class   == BenchOpClass(op_type, BenchWriteRatio, BenchScanRatio)
        picked  == Advance(r.rng, 1)
        key_num == Word(w.chacha, picked)
                     % (IF class = "write" THEN 2 * BenchPopulate ELSE BenchPopulate)
        byte    == Word(w.chacha, Advance(picked, 1)) % 256
        call    == IF class = "write"
                   THEN EngineCall(w, [r EXCEPT !.rng = Advance(picked, 2)],
                                   [op |-> "put", phase |-> "timed", draw |-> op_type,
                                    key |-> bench_key(key_num),
                                    value |-> [j \in 1..BenchValueSize |-> byte]])
                   ELSE EngineCall(w, [r EXCEPT !.rng = Advance(picked, 1)],
                                   [op |-> IF class = "scan" THEN "range_scan" ELSE "get",
                                    phase |-> "timed", draw |-> op_type,
                                    key |-> bench_key(key_num)])
        hist    == IF class = "write" THEN "write_hist"
                   ELSE IF class = "scan" THEN "scan_hist" ELSE "read_hist"
        done    == bench_record(call, hist, micros)
        count   == [done EXCEPT !.operations = @ + 1]
    IN  IF ~LastOk(call) THEN Returned(call, Err(call.log[Len(call.log)].op))
        ELSE IF done.pc = "done" THEN done
        ELSE IF count.operations % BenchFlushEvery = 0
        THEN LET flushed == Flush(w, count, "timed")
             IN  IF ~LastOk(flushed) THEN Returned(flushed, Err("flush")) ELSE flushed
        ELSE count

\* the final flush and the BenchmarkResult, with the metrics of engine e
bench_finish(w, r, e, profile) ==
    LET flushed == Flush(w, r, "final")
        m       == metrics(e, profile)
    IN  IF ~LastOk(flushed) THEN Returned(flushed, Err("flush"))
        ELSE IF m.kind = "panic" THEN Returned(flushed, Panic)
        ELSE Returned(flushed, Ok([operations |-> r.operations, writes |-> r.write_hist,
                                   reads |-> r.read_hist, scans |-> r.scan_hist,
                                   metrics |-> m.val]))

\* what an operation of Benchmark::run may take, in microseconds
BenchLatencies == {150, 2000000}

\* the engine call of Benchmark::run that may fail
MaxBenchFail == 8

\* the engines whose metrics() ends Benchmark::run
BenchEngines ==
    { [kind |-> k, bytes_written |-> b,
       native |-> [available |-> FALSE, compact_write |-> Zero, compact_read |-> Zero],
       disk |-> Ok(FromInt(4096))] :
        k \in {"RocksDB", "Sled"}, b \in {FromInt(8192), Pow2(63)} }

InitBench ==
    /\ build \in Profiles
    /\ \E u \in 0..(NUniverses - 1), f \in 0..MaxBenchFail :
          bench = [pc |-> "on", chacha |-> u, failAt |-> f,
                   num_operations |-> BenchPeriods * BenchFlushEvery, run |-> BenchIdle]
    /\ gen = Off /\ cli = Off /\ wl = Off /\ eng = Off /\ rep = Off /\ mc = Off

SetBench(r) ==
    /\ bench' = [bench EXCEPT !.run = r]
    /\ UNCHANGED <<build, gen, cli, wl, eng, rep, mc>>

BenchPopulateIteration ==
    /\ bench.pc = "on"
    /\ bench.run.pc = "populate"
    /\ bench.run.i < BenchPopulate
    /\ SetBench(bench_populate(bench, bench.run))

BenchPopulated ==
    /\ bench.pc = "on"
    /\ bench.run.pc = "populate"
    /\ bench.run.i = BenchPopulate
    /\ SetBench(bench_populated(bench, bench.run))

BenchIteration ==
    /\ bench.pc = "on"
    /\ bench.run.pc = "loop"
    /\ bench.run.operations < bench.num_operations
    /\ \E micros \in BenchLatencies : SetBench(bench_iteration(bench, bench.run, micros))

BenchFinish ==
    /\ bench.pc = "on"
    /\ bench.run.pc = "loop"
    /\ bench.run.operations = bench.num_operations
    /\ \E e \in BenchEngines : SetBench(bench_finish(bench, bench.run, e, build))

NextBench ==
    \/ BenchPopulateIteration
    \/ BenchPopulated
    \/ BenchIteration
    \/ BenchFinish

\* either loop that flushes periodically: Workload::run or Benchmark::run
InitFlush == InitRuns({1}, RunConfigs(build), {0}) \/ InitBench

NextFlush ==
    \/ wl.pc = "on" /\ NextRun
    \/ NextBench

SpecFlush == InitFlush /\ [][NextFlush]_vars

\* the entries of a log that satisfy Test
Entries(log, Test(_)) == SelectSeq(log, Test)

TimedOp(e) == e.phase = "timed" /\ e.op # "flush"

\* the number of timed operations among the first k entries of a log
Ordinal(log, k) == Len(Entries(SubSeq(log, 1, k), TimedOp))

\* the flushes of run r, whose loop flushes every `every` operations
FlushCadence(r, every) ==
    LET log == r.log
    IN  /\ \A k \in 1..Len(log) :
              /\ (log[k].op = "flush" /\ log[k].phase = "timed") =>
                    /\ k > 1 /\ TimedOp(log[k - 1])
                    /\ Ordinal(log, k) % every = 0
              /\ (TimedOp(log[k]) /\ Ordinal(log, k) % every = 0) =>
                    IF k = Len(log) THEN r.pc = "done" /\ r.result.kind # "ok"
                    ELSE log[k + 1].op = "flush" /\ log[k + 1].phase = "timed"
              /\ (TimedOp(log[k]) /\ Ordinal(log, k) % every # 0 /\ k < Len(log))
                    => log[k + 1].phase # "timed" \/ log[k + 1].op # "flush"
              /\ log[k].phase = "final" => k = Len(log) /\ r.pc = "done"
        /\ r.result.kind = "ok" =>
              /\ log[Len(log)].phase = "final"
              /\ Ordinal(log, Len(log)) = r.operations
              /\ Len(Entries(log, LAMBDA e : e.op = "flush" /\ e.phase # "populate"))
                    = (r.operations \div every) + 1

\* C13: in the timed phase of Workload::run and of Benchmark::run a flush
\* follows each operation whose ordinal is a multiple of the cadence and comes
\* at no other point; one final flush ends the run, after the last timed
\* operation; a completed run of k timed operations issues
\* floor(k / cadence) + 1 flushes after population.
C13_FlushCadence ==
    /\ wl.pc = "on" => \A id \in DOMAIN wl.run : FlushCadence(wl.run[id], FlushEvery)
    /\ bench.pc = "on" => FlushCadence(bench.run, BenchFlushEvery)

\* a completed run whose operations passed the cadence and did not end on it
C13_Witness ==
    /\ wl.pc = "on"
    /\ \E id \in DOMAIN wl.run :
          /\ wl.run[id].result.kind = "ok"
          /\ wl.run[id].operations > FlushEvery
          /\ wl.run[id].operations % FlushEvery # 0

\* the timed phase of run r has begun
Running(r) == r.pb.spawned

PhaseRank(e) == IF e.phase = "populate" THEN 1 ELSE IF e.phase = "timed" THEN 2 ELSE 3

\* C14: the phases follow one another in order; when the timed phase begins
\* population has written its total_keys / 10 keys, for the indices 0, 1, ...
\* in increasing order, and flushed, and the engine holds at least one key.
C14_PopulatedBeforeRunning ==
    wl.pc = "on" =>
        \A id \in DOMAIN wl.run :
            LET r    == wl.run[id]
                puts == Entries(r.log, LAMBDA e : e.phase = "populate" /\ e.op = "put")
                last == Len(Entries(r.log, LAMBDA e : e.phase = "populate"))
            IN  /\ \A k \in 2..Len(r.log) : PhaseRank(r.log[k - 1]) <= PhaseRank(r.log[k])
                /\ Running(r) =>
                      /\ FromInt(Len(puts)) = BDivSmall(r.total_keys, 10)
                      /\ \A k \in 1..Len(puts) :
                            puts[k].key = generate_key(wl.cfg.key_size, FromInt(k - 1))
                      /\ last >= 1 /\ r.log[last].op = "flush"
                      /\ Len(puts) >= 1

\* C15: in every state of a run the write histogram holds as many samples as
\* timed writes have completed and the read histogram as many as timed reads
\* (population writes are not recorded), and the counts of a completed run
\* sum to its operation count.
C15_HistogramCounts ==
    wl.pc = "on" =>
        \A id \in DOMAIN wl.run :
            LET r == wl.run[id]
            IN  /\ r.write_hist =
                      Len(Entries(r.log, LAMBDA e : TimedOp(e) /\ e.op = "put" /\ e.ok))
                /\ r.read_hist =
                      Len(Entries(r.log, LAMBDA e : TimedOp(e) /\ e.op = "get" /\ e.ok))
                /\ r.result.kind = "ok" =>
                      r.result.val.writes + r.result.val.reads = r.result.val.operations

\* C19: generate_key is injective over [0, total_keys) for every key_size > 0.
C19_KeysInjective ==
    wl.pc = "on" =>
        \A id \in DOMAIN wl.run :
            (wl.run[id].pc = "populate" /\ wl.cfg.key_size > 0) =>
                \A i, j \in 0..(ToInt(wl.run[id].total_keys) - 1) :
                    i # j => generate_key(wl.cfg.key_size, FromInt(i))
                               # generate_key(wl.cfg.key_size, FromInt(j))

\* C20: every key index of a timed write or read lies in [0, total_keys), and
\* a run over an empty key range ends with a result or an error, never by a
\* panic.
C20_EmptyKeyRange ==
    wl.pc = "on" =>
        \A id \in DOMAIN wl.run :
            LET r == wl.run[id]
            IN  /\ \A k \in 1..Len(r.log) :
                      TimedOp(r.log[k]) => BLt(r.log[k].key_num, r.total_keys)
                /\ r.result # PanicOf("empty range")

(***************************************************************************)
(* Two runs of one configuration against engines that answer alike, each   *)
(* with its own clock.                                                     *)
(***************************************************************************)
TwinConfigs(profile) ==
    { c \in RunConfigs(profile) :
        /\ c.duration = 2
        /\ c.writes = FromInt(30)
        /\ c.key_size = 20 }

TwinUniverses == {0, 1}

InitTwin == InitRuns({1, 2}, TwinConfigs(build), TwinUniverses)

SpecTwin == InitTwin /\ [][NextRun]_vars

\* C3: both phases of a run are seeded with 42, and two runs of the same
\* configuration issue the same sequence of (operation, key bytes, value
\* bytes): their engine operations agree at every index both have reached.
C3_SameSequence ==
    wl.pc = "on" =>
        /\ \A id \in DOMAIN wl.run :
              wl.run[id].pc \in {"populate", "loop", "body"} => wl.run[id].rng.seed = 42
        /\ \A a, b \in DOMAIN wl.run :
              LET la == Operations(wl.run[a].log)
                  lb == Operations(wl.run[b].log)
              IN  \A k \in 1..Len(la) :
                      k <= Len(lb) =>
                          /\ la[k].op = lb[k].op
                          /\ la[k].key = lb[k].key
                          /\ la[k].value = lb[k].value

\* both runs completed with different numbers of timed operations, one of
\* them having written and read
C3_Witness ==
    /\ wl.pc = "on"
    /\ DOMAIN wl.run = {1, 2}
    /\ wl.run[1].result.kind = "ok"
    /\ wl.run[2].result.kind = "ok"
    /\ wl.run[1].operations = MaxOps
    /\ wl.run[2].operations = 2
    /\ wl.run[1].write_hist >= 1
    /\ wl.run[1].read_hist >= 1

\* C16: a run of duration 0 executes no timed operation, and a run that has
\* stopped with every engine call having returned successfully has stopped
\* in Completed, with a result.
C16_RunsToCompletion ==
    wl.pc = "on" =>
        \A id \in DOMAIN wl.run :
            /\ wl.cfg.duration = 0 => wl.run[id].operations = 0
            /\ (wl.run[id].pc = "done" /\ ~Failed(wl.run[id]))
                  => wl.run[id].result.kind = "ok"

(***************************************************************************)
(* The progress task spawned by run(): once a second it advances the       *)
(* progress bar, concurrently with the loop.  Two runs of one              *)
(* configuration: one with the task, one without.                          *)
(***************************************************************************)
\* a tick that also draws from the run's generator
progress_tick_draws(r) == [r EXCEPT !.pb.position = @ + 1, !.rng = Advance(@, 1)]

\* pb_clone.inc(1)
progress_tick(r) == [r EXCEPT !.pb.position = @ + 1]

\* cap on the ticks of one progress task
MaxTicks == 2

InitProgress ==
    /\ build \in Profiles
    /\ \E c \in TwinConfigs(build) :
          wl = [pc |-> "on", cfg |-> c, chacha |-> 0, failAt |-> 0,
                run |-> [id \in {1, 2} |-> IdleRun]]
    /\ gen = Off /\ cli = Off /\ eng = Off /\ rep = Off
    /\ mc = Off /\ bench = Off

\* run 1 has the progress task, run 2 is the same run without it
ProgressTick ==
    /\ wl.run[1].pb.spawned
    /\ wl.run[1].pb.position < MaxTicks
    /\ SetRun(1, progress_tick(wl.run[1]))

NextProgress == NextRun \/ ProgressTick

SpecProgress == InitProgress /\ [][NextProgress]_vars

\* C17: however the ticks of the progress task interleave with the loop, the
\* run issues the same engine operations and holds the same histogram
\* counts as the run without the task: the two agree on every operation both
\* have issued, and on their histograms once they have issued equally many.
C17_ProgressDoesNotInterfere ==
    wl.pc = "on" =>
        \A a, b \in DOMAIN wl.run :
            LET la == Operations(wl.run[a].log)
                lb == Operations(wl.run[b].log)
            IN  /\ \A k \in 1..Len(la) :
                      k <= Len(lb) =>
                          /\ la[k].op = lb[k].op
                          /\ la[k].key = lb[k].key
                          /\ la[k].value = lb[k].value
                /\ (Len(la) = Len(lb) /\ wl.run[a].result.kind # "panic"
                       /\ wl.run[b].result.kind # "panic") =>
                          /\ wl.run[a].write_hist = wl.run[b].write_hist
                          /\ wl.run[a].read_hist = wl.run[b].read_hist

\* one run completed with ticks during its loop, the other with none
C17_Witness ==
    /\ wl.pc = "on"
    /\ DOMAIN wl.run = {1, 2}
    /\ wl.run[1].result.kind = "ok" /\ wl.run[2].result.kind = "ok"
    /\ wl.run[1].pb.position = MaxTicks /\ wl.run[2].pb.position = 0
    /\ wl.run[1].operations >= 2 /\ wl.run[2].operations >= 2

(***************************************************************************)
(* MetricsCollector (metrics.rs): two histograms built with                *)
(* new_with_bounds(1, 1_000_000_000, 3).  A histogram is the sequence of   *)
(* the values it has stored.                                               *)
(***************************************************************************)
\* record_write_latency / record_read_latency on the histogram named which
record_latency(c, which, micros) ==
    LET recorded == record(c[which], CollectorHigh, micros)
    IN  IF recorded.kind = "ok" THEN [c EXCEPT ![which] = recorded.val]
        ELSE [c EXCEPT !.pc = "panicked"]

\* durations of an operation, in microseconds
Latencies == {0, 1, 150, 1000000000, 2000000000}

\* cap on the samples of one collector
MaxSamples == 3

InitMetrics ==
    /\ build \in Profiles
    /\ mc = [pc |-> "on", write_latencies |-> <<>>, read_latencies |-> <<>>,
             last |-> [which |-> "none", micros |-> 0, count |-> 0]]
    /\ gen = Off /\ cli = Off /\ wl = Off /\ eng = Off /\ rep = Off /\ bench = Off

RecordLatency(which) ==
    /\ mc.pc = "on"
    /\ Len(mc.write_latencies) + Len(mc.read_latencies) < MaxSamples
    /\ \E micros \in Latencies :
          mc' = [record_latency(mc, which, micros)
                   EXCEPT !.last = [which |-> which, micros |-> micros,
                                    count |-> Len(mc[which])]]
    /\ UNCHANGED <<build, gen, cli, wl, eng, rep, bench>>

RecordWriteLatency == RecordLatency("write_latencies")

RecordReadLatency == RecordLatency("read_latencies")

NextMetrics == RecordWriteLatency \/ RecordReadLatency

SpecMetrics == InitMetrics /\ [][NextMetrics]_vars

\* C11: a latency outside [1, 10^9] microseconds is clamped and stored: after
\* every record call the histogram holds one more sample, a value of the
\* range when the latency was above it, and the call has not aborted.
C11_ClampsOutOfRange ==
    (mc.pc # "off" /\ mc.last.which # "none") =>
        LET hist == mc[mc.last.which]
        IN  /\ mc.pc = "on"
            /\ Len(hist) = mc.last.count + 1
            /\ mc.last.micros > CollectorHigh => hist[Len(hist)] = CollectorHigh

====
